---- MODULE Spec2Model ----
(***************************************************************************)
(* Model of the chat endpoint POST /api/ai/chat                            *)
(* (src/src/app/api/ai/chat/route.ts).                                     *)
(*                                                                         *)
(* One request is in flight at a time; requests follow each other.  The    *)
(* handler's awaits (getSession, req.json) and its synchronous stages      *)
(* (requestSchema.parse, systemPrompt, streamText) are separate steps.     *)
(* What streamText does after the handler has returned is modelled by the  *)
(* options the handler passes to it: tools, abortSignal, and no stopWhen.  *)
(***************************************************************************)
EXTENDS Integers, Sequences, FiniteSets, TLC

VARIABLES
    pc,          \* position of the handler
    session,     \* outcome of auth.api.getSession
    body,        \* outcome of req.json()
    parsed,      \* result of requestSchema.parse
    systemPrompt,\* the composed system prompt
    response,    \* the Response the handler returned
    responses,   \* number of Responses returned for this request
    signal,      \* req.signal.aborted
    modelCalls,  \* number of streamText calls of this request
    stream,      \* state of the UI message stream
    events,      \* stream events emitted to the caller
    eventsAtSignal, \* number of events emitted when req.signal fired
    transcript,  \* messages of the conversation, tool calls and results included
    modelInput,  \* the messages the model was last called with
    stepCount,   \* finished model steps
    pending,     \* tool calls whose executor has not returned yet
    stepStart,   \* number of events emitted when the current step began
    steps,       \* stages of the handler completed so far, in order
    execLog,     \* every execution of an executor since process start
    mwPc,        \* position of the middleware
    mwUrl,       \* request.nextUrl of the request the middleware handles
    mwCookie,    \* whether the browser holds a valid session cookie
    mwSession,   \* result of betterFetch("/api/auth/get-session")
    mwResponse,  \* what the middleware returned
    mwLookups,   \* session lookups made for the current request
    mwHops,      \* redirects the browser has followed since it navigated
    elapsed,     \* seconds since the chat request was received
    bg,          \* the other chat request in flight, while this one runs
    promptLog,   \* the last two prompts composed, each with its request's inputs
    suPc,        \* where handleSubmit of the sign-up page stands
    formData,    \* the sign-up form's fields
    isLoading,   \* the sign-up page's isLoading state
    submitted,   \* formData as the running handleSubmit sees it
    signUpCall,  \* the arguments of this submission's authClient.signUp.email call
    toastShown,  \* the last toast of this submission
    route,       \* the page the browser shows
    suPaths      \* the ways handleSubmit has returned so far

vars == <<pc, session, body, parsed, systemPrompt, response, responses, signal,
          modelCalls, stream, events, eventsAtSignal, transcript, modelInput,
          stepCount, pending, stepStart, steps, execLog,
          mwPc, mwUrl, mwCookie, mwSession, mwResponse, mwLookups, mwHops,
          elapsed, bg, promptLog,
          suPc, formData, isLoading, submitted, signUpCall, toastShown, route, suPaths>>

suVars == <<suPc, formData, isLoading, submitted, signUpCall, toastShown, route, suPaths>>

mwVars == <<mwPc, mwUrl, mwCookie, mwSession, mwResponse, mwLookups, mwHops>>

chatVars == <<pc, session, body, parsed, systemPrompt, response, responses, signal,
              modelCalls, stream, events, eventsAtSignal, transcript, modelInput,
              stepCount, pending, stepStart, steps, execLog>>

\* ------------------------------------------------------------------ bounds

MaxEvents == 3

\* Redirects a browser follows before it gives up.
MaxHops == 3

\* Seconds that pass in one step of the clock.
TickSeconds == 10

\* Events the model emits per stream while two requests are in flight.
ConcEvents == 1

\* ------------------------------------------------------------ input values

None == [t |-> "none"]

\* Outcomes of auth.api.getSession({headers}): it throws, or returns null, or
\* a session object with or without a user.
SessionThrows == [t |-> "throws", user |-> ""]
SessionNull == [t |-> "null", user |-> ""]
SessionNoUser == [t |-> "session", user |-> ""]
SessionUser == [t |-> "session", user |-> "u1"]
SessionOutcomes == {SessionThrows, SessionNull, SessionNoUser, SessionUser}
\* The same, with a second signed-in user.
SessionOtherUser == [t |-> "session", user |-> "u2"]
TwoUserOutcomes == SessionOutcomes \cup {SessionOtherUser}

\* JSON values, as far as the handler and the schema tell them apart.
Undefined == [t |-> "undefined", s |-> ""]
JNumber == [t |-> "number", s |-> ""]
JString(str) == [t |-> "string", s |-> str]

Paths == {"/a.ts", "/b.ts"}
Contents == {"x=1"}

FieldValues == {Undefined, JNumber} \cup {JString(p) : p \in Paths}
ContentValues == {Undefined, JNumber} \cup {JString(c) : c \in Contents}

NoFile == [t |-> "undefined", path |-> Undefined, content |-> Undefined]
CurrentFileValues ==
    {NoFile,
     [t |-> "null", path |-> Undefined, content |-> Undefined],
     [t |-> "string", path |-> Undefined, content |-> Undefined]}
    \cup [t : {"object"}, path : FieldValues, content : ContentValues]

\* An element of messages is a well-formed UIMessage ("ui") or anything else
\* z.any() lets through ("bad").
NoItems == <<>>
MessagesValues ==
    {[t |-> "undefined", items |-> NoItems],
     [t |-> "null", items |-> NoItems],
     [t |-> "string", items |-> NoItems],
     [t |-> "array", items |-> NoItems],
     [t |-> "array", items |-> <<"ui">>],
     [t |-> "array", items |-> <<"ui", "bad">>]}

NoMessages == [t |-> "undefined", items |-> NoItems]
Scalar(kind) == [t |-> kind, messages |-> NoMessages, currentFile |-> NoFile]

\* Outcomes of req.json(): it throws (the body is no JSON), or returns a value.
BodyThrows == Scalar("throws")
BodyOutcomes ==
    {BodyThrows, Scalar("null"), Scalar("number"), Scalar("string"), Scalar("array")}
    \cup [t : {"object"}, messages : MessagesValues, currentFile : CurrentFileValues]

\* ----------------------------------------------------------- requestSchema

IsString(v) == v.t = "string"

CurrentFileIssues(cf) ==
    IF cf.t = "undefined" THEN {}
    ELSE IF cf.t # "object" THEN {<<"currentFile">>}
    ELSE (IF IsString(cf.path) THEN {} ELSE {<<"currentFile", "path">>})
         \cup (IF IsString(cf.content) THEN {} ELSE {<<"currentFile", "content">>})

\* The issues requestSchema.parse(b) collects: the paths of the violations.
SchemaIssuesNoFile(b) ==
    IF b.t # "object" THEN {<<>>}
    ELSE IF b.messages.t = "array" THEN {} ELSE {<<"messages">>}

SchemaIssues(b) ==
    IF b.t # "object" THEN {<<>>}
    ELSE (IF b.messages.t = "array" THEN {} ELSE {<<"messages">>})
         \cup CurrentFileIssues(b.currentFile)

SchemaParse(b) ==
    [messages |-> b.messages.items,
     currentFile |-> IF b.currentFile.t = "undefined" THEN NoFile ELSE b.currentFile]

\* body.messages?.length, evaluated for the log line before parsing: reading
\* a property of null throws a TypeError; every other JSON value has
\* properties.
LogLineThrows(b) == b.t = "null"

\* ------------------------------------------------------------------- tools

Diffs == {"@@ -1 +1 @@"}
Explanations == {"fix"}
Commands == {"ls"}
ToolPaths == {"/a.ts"}

\* The registry: which declarations carry an execute function.
toolsWithRunCommandExecutor ==
    [listFiles |-> [execute |-> FALSE],
     readFile |-> [execute |-> FALSE],
     createFile |-> [execute |-> FALSE],
     createFolder |-> [execute |-> FALSE],
     runCommand |-> [execute |-> TRUE],
     editFileWithPatch |-> [execute |-> TRUE]]

tools ==
    [listFiles |-> [execute |-> FALSE],
     readFile |-> [execute |-> FALSE],
     createFile |-> [execute |-> FALSE],
     createFolder |-> [execute |-> FALSE],
     runCommand |-> [execute |-> FALSE],
     editFileWithPatch |-> [execute |-> TRUE]]

ToolNames == DOMAIN tools

HasExecutor(name) == tools[name].execute

\* Inputs that satisfy each tool's inputSchema.
ToolInputs(name) ==
    CASE name = "createFile" -> [path : ToolPaths, content : Contents]
      [] name = "runCommand" -> [command : Commands]
      [] name = "editFileWithPatch" ->
            [path : Paths, diff : Diffs, explanation : Explanations]
      [] OTHER -> [path : ToolPaths]

\* tools.editFileWithPatch.execute
executeApplied(input) ==
    [path |-> input.path,
     diff |-> input.diff,
     explanation |-> input.explanation,
     status |-> "applied",
     message |-> "Suggested edit to " \o input.path \o ": " \o input.explanation]

executeExplanationAsDiff(input) ==
    [path |-> input.path,
     diff |-> input.explanation,
     explanation |-> input.explanation,
     status |-> "pending_approval",
     message |-> "Suggested edit to " \o input.path \o ": " \o input.explanation]

execute(input) ==
    [path |-> input.path,
     diff |-> input.diff,
     explanation |-> input.explanation,
     status |-> "pending_approval",
     message |-> "Suggested edit to " \o input.path \o ": " \o input.explanation]

\* What running a tool's executor returns; only a tool with an executor is
\* ever run.
RunExecutor(name, input) ==
    IF name = "editFileWithPatch" THEN execute(input) ELSE [output |-> "unspecified"]

\* ----------------------------------------------------------- system prompt

GenericPrompt ==
    "You are an AI coding assistant. Help the user with their coding questions. "
    \o "When you need to suggest code changes, use the editFileWithPatch tool."

\* The template's code fence is written with three quote marks here.
FilePrompt(path, content) ==
    "You are an AI coding assistant integrated into a code editor, similar to Cursor AI.\n\n"
    \o "Current file being edited:\n- Path: " \o path \o "\n- Content:\n'''\n"
    \o content \o "\n'''\n\n"
    \o "When suggesting code changes, you MUST use the editFileWithPatch tool:\n"
    \o "1. Call editFileWithPatch with the file path, diff patch, and explanation\n"
    \o "2. The diff should be in unified diff format with:\n"
    \o "   - File paths (--- and +++)\n"
    \o "   - Hunk headers (@@ -start,count +start,count @@)\n"
    \o "   - Context lines (starting with space)\n"
    \o "   - Removed lines (starting with -)\n"
    \o "   - Added lines (starting with +)\n"
    \o "3. Include at least 3 lines of context before and after changes\n"
    \o "4. Provide a clear explanation of what you're changing and why\n\n"
    \o "Example tool call:\n{\n  \"path\": \"" \o path \o "\",\n"
    \o "  \"diff\": \"--- " \o path \o "\\n+++ " \o path
    \o "\\n@@ -10,3 +10,3 @@\\n function test() {\\n-  return false;\\n+  return true;\\n }\",\n"
    \o "  \"explanation\": \"Changed return value from false to true to fix the logic\"\n}\n\n"
    \o "The user can then accept or reject your suggested changes in the UI."

\* The prompt with the file's content left out.
ComposePromptWithoutContent(currentFile) ==
    IF currentFile.t # "undefined"
    THEN FilePrompt(currentFile.path.s, "")
    ELSE GenericPrompt

ComposePrompt(currentFile) ==
    IF currentFile.t # "undefined"
    THEN FilePrompt(currentFile.path.s, currentFile.content.s)
    ELSE GenericPrompt

\* ------------------------------------------------ messages and stream events

\* convertToModelMessages: each UIMessage becomes a model message; an element
\* that is no UIMessage makes the conversion throw.
ConversionThrows(items) == \E i \in 1..Len(items) : items[i] # "ui"

ConvertToModelMessages(items) ==
    [i \in 1..Len(items) |-> [role |-> "user", type |-> "text", id |-> 0, data |-> None]]

TextEvent == [type |-> "text-delta", id |-> 0, tool |-> "", data |-> None]
ToolCallEvent(id, name, input) ==
    [type |-> "tool-call", id |-> id, tool |-> name, data |-> input]
ToolResultEvent(id, name, output) ==
    [type |-> "tool-result", id |-> id, tool |-> name, data |-> output]
FinishEvent == [type |-> "finish", id |-> 0, tool |-> "", data |-> None]
ErrorEvent == [type |-> "error", id |-> 0, tool |-> "", data |-> None]

EventsOfType(evs, type) == {i \in 1..Len(evs) : evs[i].type = type}

\* --------------------------------------------------------------- responses

NoResponse ==
    [status |-> 0, kind |-> "none", text |-> "", error |-> "", details |-> {}]

UnauthorizedResponse ==
    [status |-> 401, kind |-> "text", text |-> "Unauthorized", error |-> "", details |-> {}]

StreamResponse ==
    [status |-> 200, kind |-> "stream", text |-> "", error |-> "", details |-> {}]

\* The catch block: a ZodError becomes a 400 with the issues, anything else
\* a 500.
CatchAlwaysInvalidRequest(err, issues) ==
    [status |-> 400, kind |-> "json", text |-> "", error |-> "Invalid request",
     details |-> issues]

CatchSwallowsError(err, issues) ==
    IF err = "ZodError"
    THEN [status |-> 400, kind |-> "json", text |-> "", error |-> "Invalid request",
          details |-> issues]
    ELSE StreamResponse

CatchResponse(err, issues) ==
    IF err = "ZodError"
    THEN [status |-> 400, kind |-> "json", text |-> "", error |-> "Invalid request",
          details |-> issues]
    ELSE [status |-> 500, kind |-> "text", text |-> "Internal Server Error",
          error |-> "", details |-> {}]

\* !session?.user
UnauthorizedOnlyWhenNull(s) == s.t = "null"

Unauthorized(s) == s.t = "null" \/ s.user = ""

\* abortSignal: req.signal
AbortSignalOmitted(sig) == FALSE

AbortSignal(sig) == sig

\* No stopWhen is passed to streamText: generation stops after one step.
StopWhenStepCount == 1

\* ------------------------------------------------------------------- state

ChatInit ==
    /\ pc = "idle"
    /\ session = None
    /\ body = None
    /\ parsed = None
    /\ systemPrompt = ""
    /\ response = NoResponse
    /\ responses = 0
    /\ signal = FALSE
    /\ modelCalls = 0
    /\ stream = "none"
    /\ events = <<>>
    /\ eventsAtSignal = 0
    /\ transcript = <<>>
    /\ modelInput = <<>>
    /\ stepCount = 0
    /\ pending = {}
    /\ stepStart = 0
    /\ steps = <<>>
    /\ execLog = {}

streamVars == <<stream, events, transcript, modelInput, stepCount, pending, stepStart>>

\* return new Response(...): the handler is over.
Return(r) ==
    /\ response' = r
    /\ responses' = responses + 1
    /\ pc' = "returned"

\* ------------------------------------------------------------ the handler

\* POST is invoked with a request.
Receive ==
    /\ pc = "idle"
    /\ pc' = "getSession"
    /\ UNCHANGED <<session, body, parsed, systemPrompt, response, responses, signal,
                   modelCalls, eventsAtSignal, steps, execLog>>
    /\ UNCHANGED streamVars

\* const session = await auth.api.getSession(...); if (!session?.user) return 401
GetSessionFrom(outcomes) ==
    /\ pc = "getSession"
    /\ \E s \in outcomes :
        /\ session' = s
        /\ IF s.t = "throws"
           THEN Return(CatchResponse("Error", {})) /\ steps' = steps
           ELSE IF Unauthorized(s)
           THEN Return(UnauthorizedResponse) /\ steps' = steps
           ELSE /\ pc' = "readBody"
                /\ steps' = Append(steps, "authorize")
                /\ UNCHANGED <<response, responses>>
    /\ UNCHANGED <<body, parsed, systemPrompt, signal, modelCalls, eventsAtSignal, execLog>>
    /\ UNCHANGED streamVars

GetSession == GetSessionFrom(SessionOutcomes)

\* const body = await req.json(); console.log(..., body.messages?.length, ...)
ReadBody ==
    /\ pc = "readBody"
    /\ \E b \in BodyOutcomes :
        /\ body' = b
        /\ IF b.t = "throws" \/ LogLineThrows(b)
           THEN Return(CatchResponse("Error", {}))
           ELSE pc' = "parse" /\ UNCHANGED <<response, responses>>
    /\ UNCHANGED <<session, parsed, systemPrompt, signal, modelCalls, eventsAtSignal,
                   steps, execLog>>
    /\ UNCHANGED streamVars

\* requestSchema.parse(body)
Parse ==
    /\ pc = "parse"
    /\ IF SchemaIssues(body) # {}
       THEN /\ Return(CatchResponse("ZodError", SchemaIssues(body)))
            /\ UNCHANGED <<parsed, steps>>
       ELSE /\ parsed' = SchemaParse(body)
            /\ steps' = Append(steps, "validate")
            /\ pc' = "compose"
            /\ UNCHANGED <<response, responses>>
    /\ UNCHANGED <<session, body, systemPrompt, signal, modelCalls, eventsAtSignal, execLog>>
    /\ UNCHANGED streamVars

\* const systemPrompt = currentFile ? `...` : "..."
Compose ==
    /\ pc = "compose"
    /\ systemPrompt' = ComposePrompt(parsed.currentFile)
    /\ steps' = Append(steps, "compose")
    /\ pc' = "streamText"
    /\ UNCHANGED <<session, body, parsed, response, responses, signal, modelCalls,
                   eventsAtSignal, execLog>>
    /\ UNCHANGED streamVars

\* streamText({..., messages: convertToModelMessages(messages), tools,
\* abortSignal: req.signal}); return result.toUIMessageStreamResponse()
StartStream ==
    /\ pc = "streamText"
    /\ IF ConversionThrows(parsed.messages)
       THEN /\ Return(CatchResponse("Error", {}))
            /\ UNCHANGED <<modelCalls, steps>>
            /\ UNCHANGED streamVars
       ELSE /\ modelCalls' = modelCalls + 1
            /\ transcript' = ConvertToModelMessages(parsed.messages)
            /\ modelInput' = ConvertToModelMessages(parsed.messages)
            /\ stream' = IF AbortSignal(signal) THEN "aborted" ELSE "open"
            /\ steps' = Append(steps, "stream")
            /\ Return(StreamResponse)
            /\ UNCHANGED <<events, stepCount, pending, stepStart>>
    /\ UNCHANGED <<session, body, parsed, systemPrompt, signal, eventsAtSignal, execLog>>

\* The caller cancels: req.signal fires.  The signal reaches the model call
\* only as the abortSignal option.
Abort ==
    /\ pc # "idle"
    /\ ~signal
    /\ pc = "returned" => stream = "open"
    /\ signal' = TRUE
    /\ eventsAtSignal' = Len(events)
    /\ stream' = IF stream = "open" /\ AbortSignal(TRUE) THEN "aborted" ELSE stream
    /\ pending' = IF stream = "open" /\ AbortSignal(TRUE) THEN {} ELSE pending
    /\ UNCHANGED <<pc, session, body, parsed, systemPrompt, response, responses,
                   modelCalls, events, transcript, modelInput, stepCount, stepStart,
                   steps, execLog>>

\* ------------------------------------------------------- the model stream

\* The model emits a text fragment.
ModelText ==
    /\ stream = "open"
    /\ Len(events) < MaxEvents
    /\ events' = Append(events, TextEvent)
    /\ transcript' = Append(transcript,
                            [role |-> "assistant", type |-> "text", id |-> 0, data |-> None])
    /\ UNCHANGED <<pc, session, body, parsed, systemPrompt, response, responses, signal,
                   modelCalls, stream, eventsAtSignal, modelInput, stepCount, pending,
                   stepStart, steps, execLog>>

\* The model calls a registered tool with a valid input: the call is
\* emitted, and handed to the tool's executor when it has one.
ModelToolCall ==
    /\ stream = "open"
    /\ Len(events) < MaxEvents
    /\ \E name \in ToolNames : \E input \in ToolInputs(name) :
        LET id == Cardinality(EventsOfType(events, "tool-call")) + 1 IN
        /\ events' = Append(events, ToolCallEvent(id, name, input))
        /\ transcript' = Append(transcript,
                [role |-> "assistant", type |-> "tool-call", id |-> id, data |-> input])
        /\ pending' = IF HasExecutor(name) THEN pending \cup {id} ELSE pending
    /\ UNCHANGED <<pc, session, body, parsed, systemPrompt, response, responses, signal,
                   modelCalls, stream, eventsAtSignal, modelInput, stepCount, stepStart,
                   steps, execLog>>

\* A tool's executor returns: the result is emitted and appended to the
\* transcript.
ExecuteTool ==
    /\ stream = "open"
    /\ \E id \in pending :
        LET call == events[CHOOSE i \in EventsOfType(events, "tool-call") : events[i].id = id]
            output == RunExecutor(call.tool, call.data)
        IN
        /\ events' = Append(events, ToolResultEvent(id, call.tool, output))
        /\ transcript' = Append(transcript,
                [role |-> "tool", type |-> "tool-result", id |-> id, data |-> output])
        /\ execLog' = execLog \cup {[tool |-> call.tool, input |-> call.data, output |-> output]}
        /\ pending' = pending \ {id}
    /\ UNCHANGED <<pc, session, body, parsed, systemPrompt, response, responses, signal,
                   modelCalls, stream, eventsAtSignal, modelInput, stepCount, stepStart,
                   steps>>

\* The model's step ends.  Another step follows when every tool call of the
\* step has a result and the stop condition is not met; otherwise the stream
\* finishes.
StepCalls == {i \in EventsOfType(events, "tool-call") : i > stepStart}
StepResults == {i \in EventsOfType(events, "tool-result") : i > stepStart}

FinishStep ==
    /\ stream = "open"
    /\ pending = {}
    /\ stepCount' = stepCount + 1
    /\ IF /\ StepCalls # {}
          /\ Cardinality(StepResults) = Cardinality(StepCalls)
          /\ stepCount + 1 < StopWhenStepCount
       THEN /\ modelInput' = transcript
            /\ modelCalls' = modelCalls
            /\ stepStart' = Len(events)
            /\ UNCHANGED <<stream, events>>
       ELSE /\ events' = Append(events, FinishEvent)
            /\ stream' = "finished"
            /\ UNCHANGED <<modelInput, modelCalls, stepStart>>
    /\ UNCHANGED <<pc, session, body, parsed, systemPrompt, response, responses, signal,
                   eventsAtSignal, transcript, pending, steps, execLog>>

\* The model provider fails or the upstream stream breaks.
UpstreamError ==
    /\ stream = "open"
    /\ events' = Append(events, ErrorEvent)
    /\ stream' = "errored"
    /\ pending' = {}
    /\ UNCHANGED <<pc, session, body, parsed, systemPrompt, response, responses, signal,
                   modelCalls, eventsAtSignal, transcript, modelInput, stepCount,
                   stepStart, steps, execLog>>

\* The request is over and discarded; nothing of it is kept.
Complete ==
    /\ pc = "returned"
    /\ stream # "open"
    /\ pc' = "idle"
    /\ session' = None
    /\ body' = None
    /\ parsed' = None
    /\ systemPrompt' = ""
    /\ response' = NoResponse
    /\ responses' = 0
    /\ signal' = FALSE
    /\ modelCalls' = 0
    /\ stream' = "none"
    /\ events' = <<>>
    /\ eventsAtSignal' = 0
    /\ transcript' = <<>>
    /\ modelInput' = <<>>
    /\ stepCount' = 0
    /\ pending' = {}
    /\ stepStart' = 0
    /\ steps' = <<>>
    /\ UNCHANGED execLog

\* --------------------------------------------------------- the middleware
\* src/src/middleware.ts

StartsWith(str, prefix) ==
    Len(str) >= Len(prefix) /\ SubSeq(str, 1, Len(prefix)) = prefix

EndsWith(str, suffix) ==
    Len(str) >= Len(suffix)
    /\ SubSeq(str, Len(str) - Len(suffix) + 1, Len(str)) = suffix

Origin == "https://app.test"

RequestPaths ==
    {"/", "/dashboard", "/auth/login", "/auth/signup", "/auth/reset", "/api/ai/chat",
     "/api", "/logo.png", "/_next/static/app.js"}
RequestSearches == {"", "?tab=1"}

NoParams == [redirect |-> "", present |-> FALSE]
Url(pathname, search, params) ==
    [origin |-> Origin, pathname |-> pathname, search |-> search, params |-> params]

\* config.matcher: the middleware runs for every path but static files,
\* image optimisation files, the favicon and image files.
ImageSuffixes == {".svg", ".png", ".jpg", ".jpeg", ".gif", ".webp"}
Matcher(pathname) ==
    /\ ~StartsWith(pathname, "/_next/static")
    /\ ~StartsWith(pathname, "/_next/image")
    /\ ~StartsWith(pathname, "/favicon.ico")
    /\ \A x \in ImageSuffixes : ~EndsWith(pathname, x)

\* The paths let through without a session lookup.
IsPublicPathNoLogin(pathname) ==
    \/ StartsWith(pathname, "/auth/signup")
    \/ StartsWith(pathname, "/api/")

IsPublicPath(pathname) ==
    \/ StartsWith(pathname, "/auth/login")
    \/ StartsWith(pathname, "/auth/signup")
    \/ StartsWith(pathname, "/api/")

\* new URL("/auth/login", request.url) with searchParams redirect = pathname
LoginUrlKeepsSearch(url) ==
    Url("/auth/login", "", [redirect |-> url.pathname \o url.search, present |-> TRUE])

LoginUrl(url) ==
    Url("/auth/login", "", [redirect |-> url.pathname, present |-> TRUE])

NoMwResponse == [type |-> "none", location |-> Url("", "", NoParams)]
NextResponse == [type |-> "next", location |-> Url("", "", NoParams)]
RedirectResponse(url) == [type |-> "redirect", location |-> url]

\* Results of betterFetch: { data, error }.
NoLookup == [data |-> "none"]
SessionData == [data |-> "session"]
NoSessionData == [data |-> "null"]

MwInit ==
    /\ mwPc = "idle"
    /\ mwUrl = Url("", "", NoParams)
    /\ mwCookie = FALSE
    /\ mwSession = NoLookup
    /\ mwResponse = NoMwResponse
    /\ mwLookups = 0
    /\ mwHops = 0

\* A browser, with or without a session cookie, requests a page.
MwNavigate ==
    /\ mwPc = "idle"
    /\ \E p \in RequestPaths, q \in RequestSearches, c \in BOOLEAN :
        /\ mwUrl' = Url(p, q, NoParams)
        /\ mwCookie' = c
    /\ mwPc' = "enter"
    /\ mwSession' = NoLookup
    /\ mwResponse' = NoMwResponse
    /\ mwLookups' = 0
    /\ mwHops' = 0

\* The request reaches the server.  A path the matcher excludes is served
\* without the middleware; a public path is let through at once.
MwEnter ==
    /\ mwPc = "enter"
    /\ IF ~Matcher(mwUrl.pathname)
       THEN mwPc' = "done" /\ mwResponse' = [NoMwResponse EXCEPT !.type = "unmatched"]
       ELSE IF IsPublicPath(mwUrl.pathname)
       THEN mwPc' = "done" /\ mwResponse' = NextResponse
       ELSE mwPc' = "getSession" /\ mwResponse' = mwResponse
    /\ UNCHANGED <<mwUrl, mwCookie, mwSession, mwLookups, mwHops>>

\* const session = await betterFetch(...); if (!session.data) redirect
MwGetSession ==
    /\ mwPc = "getSession"
    /\ \E r \in {NoSessionData} \cup (IF mwCookie THEN {SessionData} ELSE {}) :
        /\ mwSession' = r
        /\ mwResponse' = IF r.data = "null"
                         THEN RedirectResponse(LoginUrl(mwUrl))
                         ELSE NextResponse
    /\ mwLookups' = mwLookups + 1
    /\ mwPc' = "done"
    /\ UNCHANGED <<mwUrl, mwCookie, mwHops>>

\* The browser follows the redirect it was given.
MwFollow ==
    /\ mwPc = "done"
    /\ mwResponse.type = "redirect"
    /\ mwHops < MaxHops
    /\ mwUrl' = mwResponse.location
    /\ mwHops' = mwHops + 1
    /\ mwPc' = "enter"
    /\ mwSession' = NoLookup
    /\ mwResponse' = NoMwResponse
    /\ mwLookups' = 0
    /\ UNCHANGED mwCookie

\* The browser shows the page it got.
MwSettle ==
    /\ mwPc = "done"
    /\ mwResponse.type # "redirect"
    /\ mwPc' = "idle"
    /\ UNCHANGED <<mwUrl, mwCookie, mwSession, mwResponse, mwLookups, mwHops>>

\* export const maxDuration = 30
maxDuration == 30

\* The state of one chat request.
ReqState ==
    [pc |-> pc, session |-> session, body |-> body, parsed |-> parsed,
     systemPrompt |-> systemPrompt, response |-> response, responses |-> responses,
     signal |-> signal, modelCalls |-> modelCalls, stream |-> stream, events |-> events,
     eventsAtSignal |-> eventsAtSignal, transcript |-> transcript,
     modelInput |-> modelInput, stepCount |-> stepCount, pending |-> pending,
     stepStart |-> stepStart, steps |-> steps]

IdleReq ==
    [pc |-> "idle", session |-> None, body |-> None, parsed |-> None,
     systemPrompt |-> "", response |-> NoResponse, responses |-> 0,
     signal |-> FALSE, modelCalls |-> 0, stream |-> "none", events |-> <<>>,
     eventsAtSignal |-> 0, transcript |-> <<>>,
     modelInput |-> <<>>, stepCount |-> 0, pending |-> {},
     stepStart |-> 0, steps |-> <<>>]

\* ---------------------------------------------------------- the sign-up page
\* src/unnamed/part_000: SignUpPage and its handleSubmit.

\* if (formData.password.length < 8)
MinPasswordLength == 8

Emails == {"", " ", "a@b.c", "@b.c"}
Passwords == {"", "1234567", "12345678", "abcdefgh"}

\* useState({name: "", email: "", password: "", confirmPassword: ""})
EmptyForm == [email |-> "", password |-> "", confirmPassword |-> ""]

SignUpPath == "/auth/signup"
LoginAfterSignUp == "/auth/login?success=Please verify your email to continue"

\* str.trim() is the empty string
Blank(str) == \A i \in 1..Len(str) : SubSeq(str, i, i) = " "

\* str.split("@")[0]
BeforeAt(str) ==
    LET ats == {i \in 1..Len(str) : SubSeq(str, i, i) = "@"}
    IN IF ats = {}
       THEN str
       ELSE SubSeq(str, 1, (CHOOSE i \in ats : \A j \in ats : i <= j) - 1)

\* formData.email.split("@")[0] || "User"
NameOf(email) == IF BeforeAt(email) = "" THEN "User" ELSE BeforeAt(email)

\* The length check one character too lenient.
TooShortBelowSeven(password) == Len(password) < MinPasswordLength - 1

\* formData.password.length < 8
TooShort(password) == Len(password) < MinPasswordLength

\* The submit Button's disabled expression.
SubmitDisabled ==
    \/ isLoading
    \/ Blank(formData.email)
    \/ formData.password = ""
    \/ formData.confirmPassword = ""
    \/ formData.password # formData.confirmPassword

NoCall == [email |-> "", password |-> "", name |-> ""]
SignUpPaths == {"mismatch", "tooShort", "onSuccess", "onError", "thrown"}

\* ctx.error.message of onError: a message, or none
ErrorMessages == {"", "User already exists"}

SuInit ==
    /\ suPc = "idle"
    /\ formData = EmptyForm
    /\ isLoading = FALSE
    /\ submitted = EmptyForm
    /\ signUpCall = NoCall
    /\ toastShown = ""
    /\ route = SignUpPath
    /\ suPaths = {}

\* onChange of one of the three inputs; each is disabled while isLoading.
SuType ==
    /\ route = SignUpPath
    /\ ~isLoading
    /\ \/ \E v \in Emails : formData' = [formData EXCEPT !.email = v]
       \/ \E v \in Passwords : formData' = [formData EXCEPT !.password = v]
       \/ \E v \in Passwords : formData' = [formData EXCEPT !.confirmPassword = v]
    /\ UNCHANGED <<suPc, isLoading, submitted, signUpCall, toastShown, route, suPaths>>

\* The form's submit event, through the submit Button when it is enabled or
\* dispatched on the form itself; e.preventDefault(); setIsLoading(true).
\* One handleSubmit runs at a time.
SuSubmit ==
    /\ route = SignUpPath
    /\ suPc = "idle"
    /\ \E throughButton \in BOOLEAN : throughButton => ~SubmitDisabled
    /\ isLoading' = TRUE
    /\ submitted' = formData
    /\ signUpCall' = NoCall
    /\ toastShown' = ""
    /\ suPc' = "checkMatch"
    /\ UNCHANGED <<formData, route, suPaths>>

\* What a return from handleSubmit leaves behind.
SuDone(path) ==
    /\ suPc' = "idle"
    /\ suPaths' = suPaths \cup {path}

\* if (formData.password !== formData.confirmPassword) {...; return}
SuCheckMatch ==
    /\ suPc = "checkMatch"
    /\ IF submitted.password # submitted.confirmPassword
       THEN /\ toastShown' = "Passwords do not match"
            /\ isLoading' = FALSE
            /\ SuDone("mismatch")
       ELSE /\ suPc' = "checkLength"
            /\ UNCHANGED <<toastShown, isLoading, suPaths>>
    /\ UNCHANGED <<formData, submitted, signUpCall, route>>

\* if (formData.password.length < 8) {...; return}
SuCheckLength ==
    /\ suPc = "checkLength"
    /\ IF TooShort(submitted.password)
       THEN /\ toastShown' = "Password must be at least 8 characters long"
            /\ isLoading' = FALSE
            /\ SuDone("tooShort")
       ELSE /\ suPc' = "signUp"
            /\ UNCHANGED <<toastShown, isLoading, suPaths>>
    /\ UNCHANGED <<formData, submitted, signUpCall, route>>

\* await authClient.signUp.email({email, password, name}, {onSuccess, onError})
SuSignUp ==
    /\ suPc = "signUp"
    /\ signUpCall' = [email |-> submitted.email, password |-> submitted.password,
                      name |-> NameOf(submitted.email)]
    /\ suPc' = "awaiting"
    /\ UNCHANGED <<formData, isLoading, submitted, toastShown, route, suPaths>>

\* onSuccess: toast.success(...); router.push(...)
SuOnSuccess ==
    /\ suPc = "awaiting"
    /\ toastShown' = "Account created successfully! Please check your email for verification."
    /\ route' = LoginAfterSignUp
    /\ suPc' = "finally:onSuccess"
    /\ UNCHANGED <<formData, isLoading, submitted, signUpCall, suPaths>>

\* onError: toast.error(ctx.error.message ?? "Sign up failed")
SuOnError ==
    /\ suPc = "awaiting"
    /\ \E message \in ErrorMessages :
        toastShown' = IF message = "" THEN "Sign up failed" ELSE message
    /\ suPc' = "finally:onError"
    /\ UNCHANGED <<formData, isLoading, submitted, signUpCall, route, suPaths>>

\* catch (err): console.error(...); toast.error(...)
SuCatch ==
    /\ suPc = "awaiting"
    /\ toastShown' = "An unexpected error occurred. Please try again."
    /\ suPc' = "finally:thrown"
    /\ UNCHANGED <<formData, isLoading, submitted, signUpCall, route, suPaths>>

\* finally { setIsLoading(false) }
SuFinally ==
    /\ \E path \in {"onSuccess", "onError", "thrown"} :
        /\ suPc = "finally:" \o path
        /\ SuDone(path)
    /\ isLoading' = FALSE
    /\ UNCHANGED <<formData, submitted, signUpCall, toastShown, route>>

\* The user comes back to /auth/signup: the page mounts with fresh state.
SuVisit ==
    /\ route # SignUpPath
    /\ suPc = "idle"
    /\ route' = SignUpPath
    /\ formData' = EmptyForm
    /\ isLoading' = FALSE
    /\ submitted' = EmptyForm
    /\ signUpCall' = NoCall
    /\ toastShown' = ""
    /\ UNCHANGED <<suPc, suPaths>>

Init ==
    ChatInit /\ MwInit /\ SuInit /\ elapsed = 0 /\ bg = IdleReq /\ promptLog = <<>>

\* What the chat handler leaves alone, and what the middleware leaves alone.
nonChatVars == <<mwVars, elapsed, bg, promptLog, suVars>>
nonMwVars == <<chatVars, elapsed, bg, promptLog, suVars>>
nonSuVars == <<chatVars, mwVars, elapsed, bg, promptLog>>

Next ==
    \/ Receive /\ UNCHANGED nonChatVars
    \/ GetSession /\ UNCHANGED nonChatVars
    \/ ReadBody /\ UNCHANGED nonChatVars
    \/ Parse /\ UNCHANGED nonChatVars
    \/ Compose /\ UNCHANGED nonChatVars
    \/ StartStream /\ UNCHANGED nonChatVars
    \/ Abort /\ UNCHANGED nonChatVars
    \/ ModelText /\ UNCHANGED nonChatVars
    \/ ModelToolCall /\ UNCHANGED nonChatVars
    \/ ExecuteTool /\ UNCHANGED nonChatVars
    \/ FinishStep /\ UNCHANGED nonChatVars
    \/ UpstreamError /\ UNCHANGED nonChatVars
    \/ Complete /\ UNCHANGED nonChatVars

Spec == Init /\ [][Next]_vars

\* Time passes while a chat request is in flight.  Nothing in the handler
\* or in the options of streamText reads maxDuration or the clock.
Tick ==
    /\ pc # "idle"
    /\ pc = "returned" => stream = "open"
    /\ elapsed <= maxDuration
    /\ elapsed' = elapsed + TickSeconds
    /\ UNCHANGED chatVars
    /\ UNCHANGED <<mwVars, bg, promptLog, suVars>>

\* One chat request with the clock running.
DurationNext ==
    \/ Receive /\ UNCHANGED nonChatVars
    \/ GetSession /\ UNCHANGED nonChatVars
    \/ ReadBody /\ UNCHANGED nonChatVars
    \/ Parse /\ UNCHANGED nonChatVars
    \/ Compose /\ UNCHANGED nonChatVars
    \/ StartStream /\ UNCHANGED nonChatVars
    \/ Abort /\ UNCHANGED nonChatVars
    \/ ModelText /\ UNCHANGED nonChatVars
    \/ ModelToolCall /\ UNCHANGED nonChatVars
    \/ ExecuteTool /\ UNCHANGED nonChatVars
    \/ FinishStep /\ UNCHANGED nonChatVars
    \/ UpstreamError /\ UNCHANGED nonChatVars
    \/ Tick

SpecDuration == Init /\ [][DurationNext]_vars

\* Two chat requests in flight.  The runtime runs one handler or stream
\* callback at a time and may turn to the other request between any two of
\* them; each handler works on its own request.
Switch ==
    /\ bg' = ReqState
    /\ pc' = bg.pc
    /\ session' = bg.session
    /\ body' = bg.body
    /\ parsed' = bg.parsed
    /\ systemPrompt' = bg.systemPrompt
    /\ response' = bg.response
    /\ responses' = bg.responses
    /\ signal' = bg.signal
    /\ modelCalls' = bg.modelCalls
    /\ stream' = bg.stream
    /\ events' = bg.events
    /\ eventsAtSignal' = bg.eventsAtSignal
    /\ transcript' = bg.transcript
    /\ modelInput' = bg.modelInput
    /\ stepCount' = bg.stepCount
    /\ pending' = bg.pending
    /\ stepStart' = bg.stepStart
    /\ steps' = bg.steps
    /\ UNCHANGED <<execLog, mwVars, elapsed, promptLog, suVars>>

\* The caller of the running request cancels: only its own signal fires.
ConcAbortShared ==
    /\ Abort
    /\ bg' = [bg EXCEPT !.stream = IF @ = "open" THEN "aborted" ELSE @]
    /\ UNCHANGED <<mwVars, elapsed, promptLog, suVars>>

ConcAbort == Abort /\ UNCHANGED nonChatVars

\* The bodies sent while two requests are in flight: one the log line
\* throws on, one the schema rejects, one without and one with a file.
ConcBodies ==
    {Scalar("null"),
     [t |-> "object", messages |-> NoMessages, currentFile |-> NoFile],
     [t |-> "object", messages |-> [t |-> "array", items |-> <<"ui">>],
      currentFile |-> NoFile],
     [t |-> "object", messages |-> [t |-> "array", items |-> <<"ui">>],
      currentFile |-> [t |-> "object", path |-> JString("/a.ts"),
                       content |-> JString("x=1")]]}

ConcNext ==
    \/ Receive /\ UNCHANGED nonChatVars
    \/ GetSession /\ UNCHANGED nonChatVars
    \/ ReadBody /\ body' \in ConcBodies /\ UNCHANGED nonChatVars
    \/ Parse /\ UNCHANGED nonChatVars
    \/ Compose /\ UNCHANGED nonChatVars
    \/ StartStream /\ UNCHANGED nonChatVars
    \/ ConcAbort
    \/ Len(events) < ConcEvents /\ ModelText /\ UNCHANGED nonChatVars
    \/ Len(events) < ConcEvents /\ ModelToolCall /\ UNCHANGED nonChatVars
    \/ ExecuteTool /\ UNCHANGED nonChatVars
    \/ FinishStep /\ UNCHANGED nonChatVars
    \/ UpstreamError /\ UNCHANGED nonChatVars
    \/ Switch

SpecConc == Init /\ [][ConcNext]_vars

\* Requests one after the other, each prompt recorded with the request it
\* was composed for.
ComposeLogged ==
    /\ Compose
    /\ LET composed == [user |-> session.user, messages |-> parsed.messages,
                        currentFile |-> parsed.currentFile, prompt |-> systemPrompt']
       IN promptLog' = IF promptLog = <<>>
                       THEN <<composed>>
                       ELSE <<promptLog[Len(promptLog)], composed>>
    /\ UNCHANGED <<mwVars, elapsed, bg, suVars>>

PromptNext ==
    \/ Receive /\ UNCHANGED nonChatVars
    \/ GetSessionFrom(TwoUserOutcomes) /\ UNCHANGED nonChatVars
    \/ ReadBody /\ UNCHANGED nonChatVars
    \/ Parse /\ UNCHANGED nonChatVars
    \/ ComposeLogged
    \/ StartStream /\ UNCHANGED nonChatVars
    \/ FinishStep /\ UNCHANGED nonChatVars
    \/ Complete /\ UNCHANGED nonChatVars

SpecPrompt == Init /\ [][PromptNext]_vars

\* The middleware alone: a browser navigates, the middleware answers, the
\* browser follows a redirect.
MwNext ==
    \/ MwNavigate /\ UNCHANGED nonMwVars
    \/ MwEnter /\ UNCHANGED nonMwVars
    \/ MwGetSession /\ UNCHANGED nonMwVars
    \/ MwFollow /\ UNCHANGED nonMwVars
    \/ MwSettle /\ UNCHANGED nonMwVars

SpecMw == Init /\ [][MwNext]_vars

\* The sign-up page alone: the user types, submits, and the sign-up call
\* settles one way or another.
SignUpNext ==
    \/ SuType /\ UNCHANGED nonSuVars
    \/ SuSubmit /\ UNCHANGED nonSuVars
    \/ SuCheckMatch /\ UNCHANGED nonSuVars
    \/ SuCheckLength /\ UNCHANGED nonSuVars
    \/ SuSignUp /\ UNCHANGED nonSuVars
    \/ SuOnSuccess /\ UNCHANGED nonSuVars
    \/ SuOnError /\ UNCHANGED nonSuVars
    \/ SuCatch /\ UNCHANGED nonSuVars
    \/ SuFinally /\ UNCHANGED nonSuVars
    \/ SuVisit /\ UNCHANGED nonSuVars

SpecSignUp == Init /\ [][SignUpNext]_vars

TypeOK ==
    /\ pc \in {"idle", "getSession", "readBody", "parse", "compose", "streamText", "returned"}
    /\ stream \in {"none", "open", "finished", "errored", "aborted"}
    /\ responses \in 0..1

\* ------------------------------------------------------------- properties

\* The session lookup returned, and returned no session or one without a user.
NoValidSession ==
    /\ session.t \in {"null", "session"}
    /\ session.t = "session" => session.user = ""

ValidSession == session.t = "session" /\ session.user # ""

\* req.json() returned a value of the ChatRequest shape.
ChatRequestShape(b) ==
    /\ b.t = "object"
    /\ b.messages.t = "array"
    /\ \/ b.currentFile.t = "undefined"
       \/ /\ b.currentFile.t = "object"
          /\ b.currentFile.path.t = "string"
          /\ b.currentFile.content.t = "string"

BodyRead == body.t \notin {"none", "throws"}

\* C1: a request whose session lookup yields no session, or a session
\* without a user, is answered 401 at once, and streamText is never called
\* for it; the body is not even read.
C1_UnauthorizedNoModelCall ==
    NoValidSession =>
        /\ pc = "returned"
        /\ response.status = 401
        /\ modelCalls = 0
        /\ stream = "none"
        /\ body = None

C1_Witness ==
    /\ session = SessionNoUser
    /\ response.status = 401

\* C2: with a valid session, every JSON body that does not match the
\* ChatRequest shape is answered 400 {error: "Invalid request", details},
\* and the model is never called.
C2_InvalidBodyIs400 ==
    (ValidSession /\ BodyRead /\ ~ChatRequestShape(body) /\ pc = "returned") =>
        /\ response.status = 400
        /\ response.kind = "json"
        /\ response.error = "Invalid request"
        /\ response.details # {}
        /\ modelCalls = 0

\* C3: the stages of one request happen in the order authorize, validate,
\* compose, stream; a request without a valid session is never answered 400
\* and its body is never read; a 200 stream is started only after
\* authorization and validation both succeeded.
HandlerOrder == <<"authorize", "validate", "compose", "stream">>

C3_StepOrder ==
    /\ Len(steps) <= Len(HandlerOrder)
    /\ steps = SubSeq(HandlerOrder, 1, Len(steps))
    /\ (NoValidSession \/ session.t = "throws") => (response.status # 400 /\ body = None)
    /\ systemPrompt # "" => (ValidSession /\ BodyRead /\ ChatRequestShape(body))
    /\ (response.status = 200 \/ stream # "none" \/ modelCalls > 0) =>
            /\ ValidSession
            /\ BodyRead /\ ChatRequestShape(body)
            /\ steps = HandlerOrder

C3_Witness ==
    /\ response.status = 200
    /\ stream = "open"
    /\ steps = HandlerOrder
    /\ body.currentFile.t = "object"

\* C4: every execution of editFileWithPatch returns exactly
\* {path, diff, explanation, status: "pending_approval", message} with path,
\* diff and explanation as given, and equal inputs give equal records.
C4_ExecutorOutput ==
    /\ \A e \in execLog :
        /\ DOMAIN e.output = {"path", "diff", "explanation", "status", "message"}
        /\ e.output.path = e.input.path
        /\ e.output.diff = e.input.diff
        /\ e.output.explanation = e.input.explanation
        /\ e.output.status = "pending_approval"
        /\ e.output.message =
              "Suggested edit to " \o e.input.path \o ": " \o e.input.explanation
    /\ \A a, b \in execLog : a.input = b.input => a.output = b.output

C4_Witness == Cardinality(execLog) >= 2

\* C5: after any sequence of requests and executions, every patch proposal
\* the server has emitted, put in a transcript or returned from the executor
\* has status "pending_approval", never "applied" or "rejected".
C5_AlwaysPendingApproval ==
    /\ \A e \in execLog : e.output.status = "pending_approval"
    /\ \A i \in EventsOfType(events, "tool-result") :
            events[i].data.status = "pending_approval"
    /\ \A i \in 1..Len(transcript) :
            transcript[i].type = "tool-result" =>
                transcript[i].data.status = "pending_approval"

C5_Witness ==
    /\ pc = "idle"
    /\ execLog # {}

\* Tool results of the stream that are among the messages the model was
\* last called with.
SeenByModel(id) ==
    \E j \in 1..Len(modelInput) :
        modelInput[j].type = "tool-result" /\ modelInput[j].id = id

\* C6: for every call of a tool with an executor, the result is emitted on
\* the stream and appended to the transcript, and when the turn has finished
\* the model has been called with that result among its messages.
C6_ModelSeesToolResults ==
    stream = "finished" =>
        \A i \in EventsOfType(events, "tool-call") :
            HasExecutor(events[i].tool) =>
                /\ \E k \in EventsOfType(events, "tool-result") : events[k].id = events[i].id
                /\ \E j \in 1..Len(transcript) :
                        transcript[j].type = "tool-result" /\ transcript[j].id = events[i].id
                /\ SeenByModel(events[i].id)

\* C7: a call of a tool declared without an executor is emitted on the
\* stream and never gets a tool result; editFileWithPatch is the only tool
\* of the registry with an executor.
C7_NoResultWithoutExecutor ==
    /\ {n \in ToolNames : tools[n].execute} = {"editFileWithPatch"}
    /\ \A i \in EventsOfType(events, "tool-result") : events[i].tool = "editFileWithPatch"
    /\ \A i \in EventsOfType(events, "tool-call") :
            events[i].tool # "editFileWithPatch" =>
                /\ events[i].id \notin pending
                /\ \A k \in EventsOfType(events, "tool-result") : events[k].id # events[i].id
    /\ \A e \in execLog : e.tool = "editFileWithPatch"

C7_Witness ==
    /\ stream = "finished"
    /\ \E i \in EventsOfType(events, "tool-call") : events[i].tool = "runCommand"

FailedBeforeStream ==
    \/ session.t = "throws"
    \/ body.t = "throws"
    \/ BodyRead /\ ~ChatRequestShape(body)
    \/ BodyRead /\ ChatRequestShape(body) /\ ConversionThrows(body.messages.items)

IsTerminal(e) == e.type \in {"finish", "error"}

\* C9: a failure before streaming gives exactly one non-streamed error
\* response and no stream; a failure after streaming began is the last event
\* of the stream, an error event; a stream that finished or failed ends with
\* exactly one terminal event.
C9_FailureReporting ==
    /\ (pc = "returned" /\ FailedBeforeStream) =>
            /\ responses = 1
            /\ response.status \in {400, 500}
            /\ response.kind # "stream"
            /\ stream = "none"
            /\ events = <<>>
            /\ modelCalls = 0
    /\ responses <= 1
    /\ stream = "errored" => (events # <<>> /\ events[Len(events)] = ErrorEvent)
    /\ stream = "finished" => (events # <<>> /\ events[Len(events)] = FinishEvent)
    /\ \A i \in 1..Len(events) :
            IsTerminal(events[i]) => (i = Len(events) /\ stream \in {"finished", "errored"})

C9_Witness ==
    /\ stream = "errored"
    /\ Len(events) >= 2
    /\ response.status = 200

\* The four outcomes of a request that has been answered.
ZodErrorThrown == ValidSession /\ BodyRead /\ body.t # "null" /\ ~ChatRequestShape(body)

OtherFailure ==
    \/ session.t = "throws"
    \/ ValidSession /\ body.t \in {"throws", "null"}
    \/ ValidSession /\ BodyRead /\ ChatRequestShape(body)
            /\ ConversionThrows(body.messages.items)

ResponseShapes(unauthorizedText) ==
    pc = "returned" =>
        \/ /\ NoValidSession
           /\ response.status = 401 /\ response.kind = "text"
           /\ response.text = unauthorizedText
        \/ /\ ZodErrorThrown
           /\ response.status = 400 /\ response.kind = "json"
           /\ response.error = "Invalid request" /\ response.details # {}
        \/ /\ OtherFailure
           /\ response.status = 500 /\ response.kind = "text"
           /\ response.text = "Internal Server Error"
        \/ /\ ~NoValidSession /\ ~ZodErrorThrown /\ ~OtherFailure
           /\ response.status = 200 /\ response.kind = "stream"

ProtectedPath(pathname) ==
    /\ ~StartsWith(pathname, "/auth/login")
    /\ ~StartsWith(pathname, "/auth/signup")
    /\ ~StartsWith(pathname, "/api/")

\* C11: for a request the middleware handles whose path starts with none of
\* /auth/login, /auth/signup, /api/: without session data the response is a
\* redirect to /auth/login whose redirect parameter is the requested path;
\* with session data the request passes through.
C11_ProtectedPathNeedsSession ==
    (mwPc = "done" /\ mwResponse.type # "unmatched" /\ ProtectedPath(mwUrl.pathname)) =>
        /\ mwSession.data \in {"null", "session"}
        /\ mwSession.data = "null" =>
            /\ mwResponse.type = "redirect"
            /\ mwResponse.location.origin = mwUrl.origin
            /\ mwResponse.location.pathname = "/auth/login"
            /\ mwResponse.location.params = [redirect |-> mwUrl.pathname, present |-> TRUE]
        /\ mwSession.data = "session" => mwResponse = NextResponse

C11_Witness ==
    /\ mwPc = "done"
    /\ mwUrl.pathname = "/dashboard"
    /\ mwUrl.search = "?tab=1"
    /\ mwResponse.type = "redirect"

\* C16: a request for the login page, the signup page or an /api/ path is
\* never redirected and causes no session lookup; every redirect points to
\* such a path, so a browser following redirects gets a response that is no
\* redirect after at most one redirect.
C16_AtMostOneRedirect ==
    /\ mwHops <= 1
    /\ (mwPc = "done" /\ ~ProtectedPath(mwUrl.pathname)) =>
            /\ mwResponse.type # "redirect"
            /\ mwLookups = 0
            /\ mwSession = NoLookup
    /\ mwResponse.type = "redirect" => ~ProtectedPath(mwResponse.location.pathname)
    /\ (mwPc = "done" /\ mwHops = 1) => mwResponse.type # "redirect"

C16_Witness ==
    /\ mwPc = "done"
    /\ mwHops = 1
    /\ mwCookie
    /\ mwResponse.type = "next"

\* C12: a request whose model call has not finished within maxDuration
\* seconds is terminated: past maxDuration no request is still streaming.
C12_TerminatedAtMaxDuration ==
    (stream # "none" /\ elapsed > maxDuration) => stream # "open"

\* The response a request gets, computed from its own session and body.
OwnResponse(s, b) ==
    IF s.t = "throws" THEN CatchResponse("Error", {})
    ELSE IF s.t = "null" \/ s.user = "" THEN UnauthorizedResponse
    ELSE IF b.t \in {"throws", "null"} THEN CatchResponse("Error", {})
    ELSE IF ~ChatRequestShape(b) THEN CatchResponse("ZodError", SchemaIssues(b))
    ELSE IF ConversionThrows(b.messages.items) THEN CatchResponse("Error", {})
    ELSE StreamResponse

\* A request shows only what its own headers, body and signal give.
OwnOutcome(r) ==
    /\ r.stream = "aborted" => r.signal
    /\ r.pc = "returned" => r.response = OwnResponse(r.session, r.body)
    /\ r.systemPrompt # "" => r.systemPrompt = ComposePrompt(SchemaParse(r.body).currentFile)
    /\ \A k \in EventsOfType(r.events, "tool-result") :
          \E i \in EventsOfType(r.events, "tool-call") :
              /\ i < k
              /\ r.events[i].id = r.events[k].id
              /\ r.events[k].data.path = r.events[i].data.path
    /\ \A k \in EventsOfType(r.events, "finish") : ~r.signal \/ k <= r.eventsAtSignal

\* C13: with two requests interleaved in every way, each request's status,
\* prompt, tool results and stream depend only on its own session, body and
\* signal, and a cancellation aborts only the model call of the request
\* whose signal fired.
C13_RequestsIndependent == OwnOutcome(ReqState) /\ OwnOutcome(bg)

C13_Witness ==
    /\ signal
    /\ stream = "aborted"
    /\ bg.stream = "open"
    /\ ~bg.signal
    /\ bg.events # <<>>
    /\ bg.body # body

Contains(str, part) ==
    \E i \in 1..(Len(str) - Len(part) + 1) : SubSeq(str, i, i + Len(part) - 1) = part

\* C15: over any sequence of requests, two prompts composed for the same
\* currentFile (or both for none) are equal whatever the messages and the
\* earlier requests; a prompt for a file contains the file's path and its
\* whole content and tells the model to use editFileWithPatch; the prompt
\* without a file tells it so too.
C15_PromptFromCurrentFile ==
    /\ \A i, j \in DOMAIN promptLog :
            promptLog[i].currentFile = promptLog[j].currentFile
                => promptLog[i].prompt = promptLog[j].prompt
    /\ \A i \in DOMAIN promptLog :
            promptLog[i].currentFile.t = "undefined" => promptLog[i].prompt = GenericPrompt
    /\ Contains(GenericPrompt, "use the editFileWithPatch tool")
    /\ pc = "streamText" =>
        /\ parsed.currentFile.t = "undefined" => systemPrompt = GenericPrompt
        /\ parsed.currentFile.t # "undefined" =>
            /\ Contains(systemPrompt, "- Path: " \o parsed.currentFile.path.s \o "\n")
            /\ Contains(systemPrompt, "\n" \o parsed.currentFile.content.s \o "\n")
            /\ Contains(systemPrompt, "you MUST use the editFileWithPatch tool")

C15_Witness ==
    /\ Len(promptLog) = 2
    /\ promptLog[1].currentFile = promptLog[2].currentFile
    /\ promptLog[1].currentFile.t = "object"
    /\ promptLog[1].messages # promptLog[2].messages
    /\ promptLog[1].user # promptLog[2].user
    /\ pc = "streamText"

\* C17: handleSubmit calls authClient.signUp.email only with a password that
\* equals confirmPassword and has at least 8 characters, and passes it the
\* form's email and password; isLoading is TRUE at every point of a running
\* handleSubmit and FALSE once it has returned, whichever way it returned.
C17_SignUpGuardedAndLoadingReset ==
    /\ signUpCall # NoCall =>
        /\ submitted.password = submitted.confirmPassword
        /\ Len(submitted.password) >= MinPasswordLength
        /\ signUpCall.password = submitted.password
        /\ signUpCall.email = submitted.email
    /\ suPc # "idle" => isLoading
    /\ suPc = "idle" => ~isLoading
    /\ suPc \in {"awaiting", "finally:onSuccess", "finally:onError", "finally:thrown"}
        => signUpCall # NoCall

\* Every way out of handleSubmit has been taken, and the last one came
\* after a sign-up call.
C17_Witness ==
    /\ suPaths = SignUpPaths
    /\ suPc = "idle"
    /\ signUpCall # NoCall
    /\ ~isLoading

====
